---- MODULE Spec2Model ----
(***************************************************************************)
(* Model of watermark_processor.py: the keyed vocabulary partition         *)
(* (WatermarkBase), the logits processor that biases the markable set      *)
(* (WatermarkLogitsProcessor_with_preferance) and the sequential detector  *)
(* (WatermarkDetector_with_preferance).                                    *)
(*                                                                         *)
(* Tensors and lists are sequences (index k of the source is index k+1     *)
(* here).  gamma is the rational gamma/GammaDen.  Scores and deltas are    *)
(* fixed-point numbers in units of 1/ScoreScale.                           *)
(***************************************************************************)
EXTENDS Integers, Sequences, FiniteSets, TLC

\* ---------------------------------------------------------------- bounds
MaxV == 4          \* largest vocabulary size
GammaDen == 4      \* gamma ranges over 0/GammaDen .. GammaDen/GammaDen
MaxDepth == 3      \* largest args.depth
RngMod == 61       \* number of generator states
MaxCalls == 3      \* direct partition calls per behaviour

MaxGenTokens == 2  \* tokens generated per behaviour, over all rows of the batch
MaxLen == 3        \* longest token sequence given to detect
BatchSizes == {1, 2}                           \* batch sizes tried
default_hash_key == 15485863
HashKeys == {default_hash_key, 7}              \* hash_key values tried
UserIds == {<<1, 0>>, <<0, 1>>, <<1, 1>>}      \* userid values tried (bit strings)

VARIABLES
    args,       \* self.args: gen_mode and depth
    proc,       \* the WatermarkLogitsProcessor_with_preferance instance
    det,        \* the WatermarkDetector_with_preferance instance
    batch,      \* the batch of token sequences the generation engine holds
    gen,        \* per row, what each generation step used (history)
    call,       \* the last __call__: its arguments and what it returned
    part,       \* the last direct _get_greenlist_ids call
    seen,       \* per previous token, every result _get_greenlist_ids gave (history)
    out,        \* the last detect call: its arguments and outcome
    thr         \* per concurrent caller: its position in the code and its locals

vars == <<args, proc, det, batch, gen, call, part, seen, out, thr>>

\* ------------------------------------------------------------- utilities
Range(s) == {s[k] : k \in 1..Len(s)}

Min(a, b) == IF a < b THEN a ELSE b

\* s[lo:hi] of the source (0-based, hi exclusive, both clamped)
Slice(s, lo, hi) ==
    LET l == Min(lo, Len(s))
        h == Min(hi, Len(s))
    IN  IF h <= l THEN << >> ELSE [k \in 1..(h - l) |-> s[l + k]]

\* s[idx] of the source for an index tensor idx (every index in range)
Gather(s, idx) == [k \in 1..Len(idx) |-> s[idx[k] + 1]]

\* number of positions of s holding x
Occurrences(s, x) == Cardinality({k \in 1..Len(s) : s[k] = x})

RECURSIVE Concat(_)
Concat(ss) == IF ss = << >> THEN << >> ELSE Head(ss) \o Concat(Tail(ss))

\* int(userid, 2)
RECURSIVE BinValue(_)
BinValue(bits) ==
    IF bits = << >> THEN 0
    ELSE 2 * BinValue(SubSeq(bits, 1, Len(bits) - 1)) + bits[Len(bits)]

\* ------------------------------------------------------ torch.Generator
\* Generator.manual_seed: the state becomes a function of the seed alone
manual_seed(seed) == seed % RngMod

LcgNext(s) == (5 * s + 3) % RngMod

Swap(p, i, j) == [p EXCEPT ![i] = p[j], ![j] = p[i]]

RECURSIVE Shuffle(_, _, _)
Shuffle(p, i, s) ==
    IF i <= 1 THEN [perm |-> p, state |-> s]
    ELSE LET s2 == LcgNext(s)
             j == (s2 % i) + 1
         IN  Shuffle(Swap(p, i, j), i - 1, s2)

\* torch.randperm(n, generator=rng): a permutation of 0..n-1 drawn from the
\* generator's current state, and the state the draw leaves behind
randperm(n, rng) == Shuffle([k \in 1..n |-> k - 1], n, rng)

\* torch.Generator(device=...): a new generator starts from the default seed
\* (67280421310721, kept here to its low 31 bits)
Generator == manual_seed(1906102529)

\* --------------------------------------------------------- WatermarkBase
None == -1

\* WatermarkBase.__init__
WatermarkBase(vocab_size, gamma, decrease_delta, delta, wm_mode, seeding_scheme, hash_key, userid) ==
    [vocab_size |-> vocab_size, gamma |-> gamma, decrease_delta |-> decrease_delta,
     delta |-> delta, wm_mode |-> wm_mode, seeding_scheme |-> seeding_scheme,
     rng |-> None, hash_key |-> hash_key, idx_t |-> 0, userid |-> userid]

\* _seed_rng: whether it returns (it raises NotImplementedError for another
\* seeding scheme) and the generator state it leaves
seed_rng_noreseed(self, input_ids) ==
    [ok |-> self.seeding_scheme = "simple_1", rng |-> self.rng]

seed_rng(self, input_ids) ==
    IF self.seeding_scheme = "simple_1"
    THEN [ok |-> TRUE, rng |-> manual_seed(self.hash_key * input_ids[Len(input_ids)])]
    ELSE [ok |-> FALSE, rng |-> self.rng]

seed_depth_rng(self) == manual_seed(self.hash_key * BinValue(self.userid))

greenlist_size_ceil(self) ==
    (self.vocab_size * self.gamma + GammaDen - 1) \div GammaDen

\* int(self.vocab_size * self.gamma)
greenlist_size(self) == (self.vocab_size * self.gamma) \div GammaDen

\* depth_red_ids, lines 106-111.  IndexError when an index of
\* depth_permutation is out of range for redlist_ids[:-1] or redlist_ids[-1]
\* does not exist.
depth_red_ids_of(redlist_ids, greenlist_ids, depth_permutation) ==
    IF Len(redlist_ids) # Len(greenlist_ids)
    THEN LET head == Slice(redlist_ids, 0, Len(redlist_ids) - 1) IN
         IF \/ \E k \in 1..Len(depth_permutation) : depth_permutation[k] >= Len(head)
            \/ Len(redlist_ids) = 0
         THEN [ok |-> FALSE, ids |-> << >>]
         ELSE [ok |-> TRUE,
               ids |-> Gather(head, depth_permutation)
                       \o << redlist_ids[Len(redlist_ids)] >>]
    ELSE [ok |-> TRUE, ids |-> Gather(redlist_ids, depth_permutation)]

\* the chunk loop, lines 119-125, for one of the two id tensors
d_masks_of(ids, length, depth) ==
    [i \in 1..depth |->
        IF i - 1 = depth - 1 THEN Slice(ids, (i - 1) * length, Len(ids))
        ELSE Slice(ids, (i - 1) * length, i * length)]

\* _get_greenlist_ids: what it returns (or the exception it raises) and
\* the generator state it leaves.  On an exception greenlist_ids and
\* redlist_ids are the locals of lines 98-99 at the time it is raised.
get_greenlist_ids(self, a, input_ids) ==
    LET seeded == seed_rng(self, input_ids) IN
    IF ~seeded.ok
    THEN [status |-> "NotImplementedError", greenlist_ids |-> << >>,
          redlist_ids |-> << >>, green_d_masks |-> << >>, red_d_masks |-> << >>,
          rng |-> self.rng]
    ELSE
    LET size == greenlist_size(self)
        draw1 == randperm(self.vocab_size, seeded.rng)
        vocab_permutation == draw1.perm
        greenlist_ids == Slice(vocab_permutation, 0, size)
        redlist_ids == Slice(vocab_permutation, size, self.vocab_size)
        draw2 == randperm(Len(greenlist_ids), seed_depth_rng(self))
        depth_permutation == draw2.perm
        depth_green_ids == Gather(greenlist_ids, depth_permutation)
        depth_red_ids == depth_red_ids_of(redlist_ids, greenlist_ids, depth_permutation)
        length == size \div a.depth
    IN  IF ~depth_red_ids.ok
        THEN [status |-> "IndexError", greenlist_ids |-> greenlist_ids,
              redlist_ids |-> redlist_ids, green_d_masks |-> << >>,
              red_d_masks |-> << >>, rng |-> draw2.state]
        ELSE IF a.gen_mode = "depth_d"
        THEN [status |-> "ok", greenlist_ids |-> greenlist_ids,
              redlist_ids |-> redlist_ids,
              green_d_masks |-> d_masks_of(depth_green_ids, length, a.depth),
              red_d_masks |-> d_masks_of(depth_red_ids.ids, length, a.depth),
              rng |-> draw2.state]
        ELSE [status |-> "ok", greenlist_ids |-> greenlist_ids,
              redlist_ids |-> redlist_ids, green_d_masks |-> << >>,
              red_d_masks |-> << >>, rng |-> draw2.state]

\* what the caller sees of a call: everything but the generator state
Returned(r) ==
    [status |-> r.status, greenlist_ids |-> r.greenlist_ids,
     redlist_ids |-> r.redlist_ids, green_d_masks |-> r.green_d_masks,
     red_d_masks |-> r.red_d_masks]

\* ------------------------------ WatermarkLogitsProcessor_with_preferance
\* one score unit is 1/ScoreScale
ScoreScale == 10 ^ 6

\* 4.84 * e ** (-0.001 * idx_t) in score units, by the series of e ** x to
\* the second order (exact to a unit for idx_t <= 100)
DecayBias(idx_t) ==
    (484 * ScoreScale) \div 100 - (484 * ScoreScale * idx_t) \div 100000
        + (242 * idx_t * idx_t * ScoreScale) \div (10 ^ 8)

\* the preference bit of __call__, lines 208-211: read from the last row of
\* the batch; IndexError when wm_mode needs input_ids[-1][-2] and the row
\* has one token
call_preferance(self, input_ids) ==
    LET last == input_ids[Len(input_ids)]
        n == Len(self.userid)
    IN  IF self.wm_mode = "previous1"
        THEN [ok |-> TRUE, bit |-> self.userid[(last[Len(last)] % n) + 1]]
        ELSE IF Len(last) < 2 THEN [ok |-> FALSE, bit |-> 0]
        ELSE [ok |-> TRUE,
              bit |-> self.userid[((last[Len(last)] * last[Len(last) - 1]) % n) + 1]]

\* the batch loop of __call__, lines 224-233, from row b on; acc holds the
\* generator state, the rows done so far and the local d_masks, which is
\* what the last pass left (batched_d_masks is filled in depth_d mode and
\* read nowhere)
RECURSIVE batch_loop(_, _, _, _, _, _)
batch_loop(self, a, input_ids, preferance, b, acc) ==
    IF b > Len(input_ids) THEN acc
    ELSE LET r == get_greenlist_ids([self EXCEPT !.rng = acc.rng], a, input_ids[b]) IN
         IF r.status # "ok" THEN [acc EXCEPT !.status = r.status, !.rng = r.rng]
         ELSE batch_loop(self, a, input_ids, preferance, b + 1,
                  [status |-> "ok", rng |-> r.rng,
                   batched_greenlist_ids |->
                       Append(acc.batched_greenlist_ids,
                              IF preferance = 1 THEN r.greenlist_ids ELSE r.redlist_ids),
                   d_masks |-> IF preferance = 1 THEN r.green_d_masks ELSE r.red_d_masks,
                   batched_d_masks |->
                       Append(acc.batched_d_masks,
                              IF preferance = 1 THEN r.green_d_masks ELSE r.red_d_masks)])

\* _bias_depth_d_logits from chunk i (0-based) on; delta is the running value
\* of the local delta, which every pass multiplies by 0.5 ** i
RECURSIVE bias_depth_d_logits(_, _, _, _, _)
bias_depth_d_logits(scores, greenlist_token_ids, d_masks, delta, i) ==
    IF i >= Len(d_masks) THEN scores
    ELSE LET d == delta \div (2 ^ i)
             biased == [j \in 1..Len(scores) |->
                          IF j <= Len(greenlist_token_ids)
                          THEN [id \in DOMAIN scores[j] |->
                                   IF id \in Range(d_masks[i + 1])
                                   THEN scores[j][id] + d ELSE scores[j][id]]
                          ELSE scores[j]]
         IN  bias_depth_d_logits(biased, greenlist_token_ids, d_masks, d, i + 1)

calc_greenlist_mask_row0(scores, greenlist_token_ids) ==
    [b \in 1..Len(scores) |->
        [id \in DOMAIN scores[b] |-> id \in Range(greenlist_token_ids[1])]]

\* _calc_greenlist_mask
calc_greenlist_mask(scores, greenlist_token_ids) ==
    [b \in 1..Len(scores) |->
        [id \in DOMAIN scores[b] |->
            b <= Len(greenlist_token_ids) /\ id \in Range(greenlist_token_ids[b])]]

\* _bias_greenlist_logits
bias_greenlist_logits(self, scores, greenlist_mask, greenlist_bias, decrease_delta) ==
    LET bias == IF decrease_delta THEN DecayBias(self.idx_t) ELSE greenlist_bias IN
    [b \in 1..Len(scores) |->
        [id \in DOMAIN scores[b] |->
            IF greenlist_mask[b][id] THEN scores[b][id] + bias ELSE scores[b][id]]]

\* __call__: the scores it returns (or the exception it raises) and the
\* instance state it leaves
WatermarkCall(self, a, input_ids, scores) ==
    LET pref == call_preferance(self, input_ids) IN
    IF ~pref.ok
    THEN [status |-> "IndexError", scores |-> scores, self |-> self,
          preferance |-> 0, batched_greenlist_ids |-> << >>,
          batched_d_masks |-> << >>]
    ELSE
    LET self1 == [self EXCEPT !.idx_t = @ + 1,
                              !.rng = IF @ = None THEN Generator ELSE @]
        loop == batch_loop(self1, a, input_ids, pref.bit, 1,
                    [status |-> "ok", rng |-> self1.rng,
                     batched_greenlist_ids |-> << >>, d_masks |-> << >>,
                     batched_d_masks |-> << >>])
        self2 == [self1 EXCEPT !.rng = loop.rng]
    IN  IF loop.status # "ok"
        THEN [status |-> loop.status, scores |-> scores, self |-> self2,
              preferance |-> pref.bit, batched_greenlist_ids |-> << >>,
              batched_d_masks |-> << >>]
        ELSE IF a.gen_mode = "depth_d"
        THEN [status |-> "ok",
              scores |-> bias_depth_d_logits(scores, loop.batched_greenlist_ids,
                                             loop.d_masks, self.delta, 0),
              self |-> self2, preferance |-> pref.bit,
              batched_greenlist_ids |-> loop.batched_greenlist_ids,
              batched_d_masks |-> loop.batched_d_masks]
        ELSE IF a.gen_mode = "beam_delta"
        THEN [status |-> "TypeError", scores |-> scores, self |-> self2,
              preferance |-> pref.bit,
              batched_greenlist_ids |-> loop.batched_greenlist_ids,
              batched_d_masks |-> loop.batched_d_masks]
        ELSE IF a.gen_mode = "dynamic_delta"
        THEN [status |-> "AttributeError", scores |-> scores, self |-> self2,
              preferance |-> pref.bit,
              batched_greenlist_ids |-> loop.batched_greenlist_ids,
              batched_d_masks |-> loop.batched_d_masks]
        ELSE [status |-> "ok",
              scores |-> bias_greenlist_logits(self2, scores,
                             calc_greenlist_mask(scores, loop.batched_greenlist_ids),
                             self.delta, self.decrease_delta),
              self |-> self2, preferance |-> pref.bit,
              batched_greenlist_ids |-> loop.batched_greenlist_ids,
              batched_d_masks |-> loop.batched_d_masks]

\* ------------------------------------- WatermarkDetector_with_preferance
\* __init__: the instance, with constructed = "ok" or the exception raised.
\* tokenizer is [present, bos_token_id]: not present stands for None.
WatermarkDetector(base, device, tokenizer, z_threshold, ignore_repeated_bigrams) ==
    LET min_prefix_len ==
            IF base.seeding_scheme = "simple_1" /\ base.wm_mode = "previous1" THEN 1
            ELSE IF base.wm_mode = "combination" THEN 2
            ELSE 0
        self == [base EXCEPT !.rng = Generator] @@
                [device |-> device, tokenizer |-> tokenizer,
                 z_threshold |-> z_threshold, min_prefix_len |-> min_prefix_len,
                 ignore_repeated_bigrams |-> ignore_repeated_bigrams,
                 constructed |-> "ok"]
    IN  IF ~device \/ ~tokenizer.present
        THEN [self EXCEPT !.constructed = "AssertionError"]
        ELSE IF min_prefix_len = 0
        THEN [self EXCEPT !.constructed = "NotImplementedError"]
        ELSE IF ignore_repeated_bigrams /\ base.seeding_scheme # "simple_1"
        THEN [self EXCEPT !.constructed = "AssertionError"]
        ELSE self

\* whether z = (observed_count - gamma * T) / sqrt(T * gamma * (1 - gamma)) of
\* _compute_z_score is greater than threshold, in exact arithmetic
\* (T * gamma * (1 - gamma) > 0)
z_gt(self, observed_count, T, threshold) ==
    LET numer == observed_count * GammaDen - self.gamma * T
        radicand == T * self.gamma * (GammaDen - self.gamma)
    IN  IF threshold >= 0
        THEN numer > 0 /\ numer * numer > threshold * threshold * radicand
        ELSE numer >= 0 \/ numer * numer < threshold * threshold * radicand

\* the preference bit of the scan at position idx, lines 360-364
scan_preferance(self, input_ids, idx) ==
    LET n == Len(self.userid) IN
    IF self.wm_mode = "previous1"
    THEN self.userid[(input_ids[idx] % n) + 1]
    ELSE self.userid[((input_ids[idx] * input_ids[idx - 1]) % n) + 1]

mark_bit_hit(preferance, hit) == IF hit THEN 1 ELSE 0

\* the bit appended to mark, lines 372-391
mark_bit(preferance, hit) ==
    IF hit THEN (IF preferance = 1 THEN 1 ELSE 0)
    ELSE (IF preferance = 0 THEN 1 ELSE 0)

\* depth_hit after lines 379-382 for curr_token
depth_hit_add(depth_hit, d_masks, curr_token) ==
    [j \in 1..Len(depth_hit) |->
        IF j <= Len(d_masks) /\ curr_token \in Range(d_masks[j])
        THEN depth_hit[j] + 1 ELSE depth_hit[j]]

RECURSIVE scan(_, _, _, _, _)

\* one pass of the loop of lines 356-392 at position idx, given the preference
\* bit and what _get_greenlist_ids gave (r), then the rest of the loop
scan_step(self, a, input_ids, idx, acc, preferance, r) ==
    IF r.status # "ok" THEN [acc EXCEPT !.status = r.status, !.rng = r.rng]
    ELSE LET curr_token == input_ids[idx + 1]
             greenlist_ids == IF preferance = 1 THEN r.greenlist_ids ELSE r.redlist_ids
             d_masks == IF preferance = 1 THEN r.green_d_masks ELSE r.red_d_masks
             hit == curr_token \in Range(greenlist_ids)
         IN  scan(self, a, input_ids, idx + 1,
                  [status |-> "ok", rng |-> r.rng,
                   green_token_count |-> acc.green_token_count + (IF hit THEN 1 ELSE 0),
                   green_token_mask |-> Append(acc.green_token_mask, hit),
                   mark |-> Append(acc.mark, mark_bit(preferance, hit)),
                   depth_hit |-> IF hit /\ a.gen_mode = "depth_d"
                                 THEN depth_hit_add(acc.depth_hit, d_masks, curr_token)
                                 ELSE acc.depth_hit,
                   bits |-> Append(acc.bits, preferance),
                   markable |-> Append(acc.markable, Range(greenlist_ids))])

\* the loop of lines 356-392 from position idx (0-based) on; acc holds the
\* locals: generator state, counters, mark, and per position the preference
\* bit and the markable ids used
scan(self, a, input_ids, idx, acc) ==
    IF idx >= Len(input_ids) THEN acc
    ELSE scan_step(self, a, input_ids, idx, acc,
                   scan_preferance(self, input_ids, idx),
                   get_greenlist_ids([self EXCEPT !.rng = acc.rng], a,
                                     SubSeq(input_ids, 1, idx)))

\* the distinct bigrams of tokens in order of first appearance (the keys of
\* collections.Counter(ngrams(tokens, 2)))
RECURSIVE bigram_keys(_, _, _)
bigram_keys(tokens, k, acc) ==
    IF k >= Len(tokens) THEN acc
    ELSE LET bg == <<tokens[k], tokens[k + 1]>> IN
         bigram_keys(tokens, k + 1,
                     IF bg \in Range(acc) THEN acc ELSE Append(acc, bg))

\* "x in t" for the 4-tuple t that _get_greenlist_ids returns, line 338: each
\* tensor is compared elementwise and the comparison is taken as a bool, which
\* raises RuntimeError unless the tensor has exactly one element; the two
\* lists never equal an int
in_tuple(x, r) ==
    IF Len(r.greenlist_ids) # 1 THEN [ok |-> FALSE, value |-> FALSE]
    ELSE IF r.greenlist_ids[1] = x THEN [ok |-> TRUE, value |-> TRUE]
    ELSE IF Len(r.redlist_ids) # 1 THEN [ok |-> FALSE, value |-> FALSE]
    ELSE [ok |-> TRUE, value |-> r.redlist_ids[1] = x]

RECURSIVE bigram_loop(_, _, _, _, _)

\* one pass of the loop of lines 333-338 for bigram k, given what
\* _get_greenlist_ids gave (r), then the rest of the loop
bigram_step(self, a, keys, k, acc, r) ==
    IF r.status # "ok" THEN [acc EXCEPT !.status = r.status, !.rng = r.rng]
    ELSE IF ~in_tuple(keys[k][2], r).ok
    THEN [acc EXCEPT !.status = "RuntimeError", !.rng = r.rng]
    ELSE bigram_loop(self, a, keys, k + 1,
             [acc EXCEPT !.rng = r.rng,
                         !.green_token_count =
                             @ + (IF in_tuple(keys[k][2], r).value THEN 1 ELSE 0)])

\* the loop of lines 333-338 from bigram k on
bigram_loop(self, a, keys, k, acc) ==
    IF k > Len(keys) THEN acc
    ELSE bigram_step(self, a, keys, k, acc,
                     get_greenlist_ids([self EXCEPT !.rng = acc.rng], a, <<keys[k][1]>>))

\* the reference distribution of line 422, in units of 1/10000
standard_depth_distribution == <<6834, 1800, 1366>>

\* lines 394-438 of _score_sequence, after the counting: the exception raised
\* there, or "ok" when the function returns
score_tail(self, a, num_tokens_scored) ==
    IF num_tokens_scored = 0 THEN "ZeroDivisionError"
    ELSE IF self.gamma = 0 \/ self.gamma = GammaDen THEN "ZeroDivisionError"
    ELSE IF a.gen_mode = "depth_d"
    THEN IF self.ignore_repeated_bigrams THEN "UnboundLocalError"
         ELSE IF a.depth # Len(standard_depth_distribution) THEN "RuntimeError"
         ELSE "ok"
    ELSE "UnboundLocalError"

NoScan == [status |-> "ok", green_token_count |-> 0, green_token_mask |-> << >>, mark |-> << >>, bits |-> << >>, markable |-> << >>]

score_standard(self, a, input_ids, return_green_token_mask) ==
    LET T == Len(input_ids) - self.min_prefix_len
        sc == scan(self, a, input_ids, self.min_prefix_len,
                   NoScan @@ [rng |-> self.rng, depth_hit |-> [j \in 1..a.depth |-> 0]])
    IN  [sc EXCEPT !.status = IF @ = "ok" THEN score_tail(self, a, T) ELSE @]
        @@ [num_tokens_scored |-> T]

\* _score_sequence: the locals it ends with, status "ok" when it returns and
\* the exception otherwise
score_sequence(self, a, input_ids, return_green_token_mask) ==
    IF self.ignore_repeated_bigrams
    THEN IF return_green_token_mask
         THEN [status |-> "AssertionError", rng |-> self.rng,
               depth_hit |-> << >>, num_tokens_scored |-> 0] @@ NoScan
         ELSE LET keys == bigram_keys(input_ids, 1, << >>)
                  lp == bigram_loop(self, a, keys, 1,
                            NoScan @@ [rng |-> self.rng, depth_hit |-> << >>])
              IN  [lp EXCEPT !.status = IF @ = "ok" THEN score_tail(self, a, Len(keys)) ELSE @]
                  @@ [num_tokens_scored |-> Len(keys)]
    ELSE LET T == Len(input_ids) - self.min_prefix_len IN
         IF T < 1
         THEN [status |-> "ValueError", rng |-> self.rng,
               depth_hit |-> << >>, num_tokens_scored |-> T] @@ NoScan
         ELSE score_standard(self, a, input_ids, return_green_token_mask)

\* the threshold line 486 puts in effect: None and 0 are both falsy
threshold_in_effect(self, z_threshold) ==
    IF z_threshold # None /\ z_threshold # 0 THEN z_threshold ELSE self.z_threshold

\* lines 479-492 of detect: the outcome, given the tokens scored and what
\* _score_sequence gave (sc)
detect_outcome(self, tokens, z_threshold, sc) ==
    IF sc.status # "ok"
    THEN sc @@ [prediction |-> FALSE, confidence |-> FALSE, tokens |-> tokens]
    ELSE IF threshold_in_effect(self, z_threshold) = None
    THEN [sc EXCEPT !.status = "AssertionError"]
         @@ [prediction |-> FALSE, confidence |-> FALSE, tokens |-> tokens]
    ELSE sc @@ [prediction |-> z_gt(self, sc.green_token_count, sc.num_tokens_scored,
                                    threshold_in_effect(self, z_threshold)),
                confidence |-> z_gt(self, sc.green_token_count, sc.num_tokens_scored,
                                    threshold_in_effect(self, z_threshold)),
                tokens |-> tokens]

\* detect raising e before any scoring
detect_failed(self, e) ==
    [status |-> e, rng |-> self.rng, depth_hit |-> << >>,
     num_tokens_scored |-> 0, prediction |-> FALSE,
     confidence |-> FALSE, tokens |-> << >>] @@ NoScan

\* lines 462-481 of detect for the ids given: the bos token is dropped from
\* the front, then the rest is scored
detect_ids(self, a, given, z_threshold, return_green_token_mask) ==
    IF given = << >> THEN detect_failed(self, "IndexError")
    ELSE detect_outcome(self,
             IF given[1] = self.tokenizer.bos_token_id THEN Tail(given) ELSE given,
             z_threshold,
             score_sequence(self, a,
                 IF given[1] = self.tokenizer.bos_token_id THEN Tail(given) ELSE given,
                 return_green_token_mask))

\* detect with return_prediction and return_scores left at their defaults and
\* no normalizers configured: the outcome and the generator state it leaves.
\* text and tokenized_text are [present, ids]; a text stands for the ids the
\* tokenizer gives for it.
detect(self, a, text, tokenized_text, z_threshold, return_green_token_mask) ==
    IF text.present = tokenized_text.present THEN detect_failed(self, "AssertionError")
    ELSE detect_ids(self, a,
                    IF tokenized_text.present THEN tokenized_text.ids ELSE text.ids,
                    z_threshold, return_green_token_mask)

\* ---------------------------------------------------------------- idle values
NoCall == [status |-> "none"]
NoPart == [status |-> "none", n |-> 0, prev |-> << >>]
NoOut == [status |-> "none"]
NoInstance == [constructed |-> "none"]

Tokens(self) == 0..(self.vocab_size - 1)

\* --------------------------------------------- direct partition derivations
InitPartition ==
    /\ args \in [gen_mode : {"normal", "depth_d"}, depth : 1..MaxDepth]
    /\ \E V \in 1..MaxV, g \in 0..GammaDen, key \in HashKeys, uid \in UserIds :
          det = [WatermarkBase(V, g, FALSE, 2, "previous1", "simple_1", key, uid)
                 EXCEPT !.rng = Generator]
    /\ proc = NoInstance
    /\ batch = << >>
    /\ gen = << >>
    /\ call = NoCall
    /\ part = NoPart
    /\ seen = [t \in Tokens(det) |-> {}]
    /\ out = NoOut
    /\ thr = << >>

\* one call self._get_greenlist_ids(prefix) on the instance
GetGreenlistIds(prefix) ==
    /\ part.n < MaxCalls
    /\ \E r \in {get_greenlist_ids(det, args, prefix)} :
        /\ det' = [det EXCEPT !.rng = r.rng]
        /\ part' = [status |-> r.status, n |-> part.n + 1,
                    prev |-> Append(part.prev, prefix[Len(prefix)]),
                    res |-> Returned(r)]
        /\ seen' = [seen EXCEPT ![prefix[Len(prefix)]] = @ \cup {Returned(r)}]
    /\ UNCHANGED <<args, proc, batch, gen, call, out, thr>>

NextPartition == \E t \in Tokens(det) : GetGreenlistIds(<<t>>)

SpecPartition == InitPartition /\ [][NextPartition]_vars

\* ------------------------------------ concurrent callers on one instance
\* lines 95-127 of _get_greenlist_ids given the two permutations drawn: what
\* the caller sees (as Returned)
greenlist_from(self, a, vocab_permutation, depth_permutation) ==
    LET size == greenlist_size(self)
        greenlist_ids == Slice(vocab_permutation, 0, size)
        redlist_ids == Slice(vocab_permutation, size, self.vocab_size)
        depth_green_ids == Gather(greenlist_ids, depth_permutation)
        depth_red_ids == depth_red_ids_of(redlist_ids, greenlist_ids, depth_permutation)
        length == size \div a.depth
    IN  IF ~depth_red_ids.ok
        THEN [status |-> "IndexError", greenlist_ids |-> greenlist_ids,
              redlist_ids |-> redlist_ids, green_d_masks |-> << >>,
              red_d_masks |-> << >>]
        ELSE IF a.gen_mode = "depth_d"
        THEN [status |-> "ok", greenlist_ids |-> greenlist_ids,
              redlist_ids |-> redlist_ids,
              green_d_masks |-> d_masks_of(depth_green_ids, length, a.depth),
              red_d_masks |-> d_masks_of(depth_red_ids.ids, length, a.depth)]
        ELSE [status |-> "ok", greenlist_ids |-> greenlist_ids,
              redlist_ids |-> redlist_ids, green_d_masks |-> << >>,
              red_d_masks |-> << >>]

\* the callers that share the instance
Callers == {1, 2}

\* a caller that has not started
Idle == [pc |-> "idle", op |-> "none", prev_token |-> None, idx_t |-> None, vocab_permutation |-> << >>, res |-> NoPart]

\* The shared instance is det: a processor before its first __call__
\* (rng None, line 60) whose callers run generation steps, or a detector
\* (rng made by line 281) whose callers run the scan of _score_sequence.
InitConcurrent ==
    /\ args \in [gen_mode : {"normal"}, depth : {1}]
                 \cup [gen_mode : {"depth_d"}, depth : 1..MaxDepth]
    /\ \E V \in 2..MaxV, g \in 1..(GammaDen - 1), r \in {None, Generator} :
          det = [WatermarkBase(V, g, FALSE, 2 * ScoreScale, "previous1", "simple_1",
                               default_hash_key, <<1, 0>>)
                 EXCEPT !.rng = r]
    /\ proc = NoInstance
    /\ batch = << >>
    /\ gen = << >>
    /\ call = NoCall
    /\ part = NoPart
    /\ seen = << >>
    /\ out = NoOut
    /\ thr = [c \in Callers |-> Idle]

\* caller c enters __call__ with a one-row batch ending in prev_token
BeginCall(c, prev_token) ==
    /\ thr[c].pc = "idle"
    /\ det.rng = None \/ \E d \in Callers : thr[d].op = "__call__"
    /\ thr' = [thr EXCEPT ![c] = [@ EXCEPT !.pc = "idx_load", !.op = "__call__",
                                            !.prev_token = prev_token]]
    /\ UNCHANGED <<args, proc, det, batch, gen, call, part, seen, out>>

\* caller c's scan reaches line 369/371 with a prefix ending in prev_token
BeginScore(c, prev_token) ==
    /\ thr[c].pc = "idle"
    /\ det.rng # None
    /\ \A d \in Callers : thr[d].op # "__call__"
    /\ thr' = [thr EXCEPT ![c] = [@ EXCEPT !.pc = "seed_rng", !.op = "_score_sequence",
                                            !.prev_token = prev_token]]
    /\ UNCHANGED <<args, proc, det, batch, gen, call, part, seen, out>>

\* line 212, self.idx_t += 1: the load of self.idx_t
IdxLoad(c) ==
    /\ thr[c].pc = "idx_load"
    /\ thr' = [thr EXCEPT ![c] = [@ EXCEPT !.pc = "idx_store", !.idx_t = det.idx_t]]
    /\ UNCHANGED <<args, proc, det, batch, gen, call, part, seen, out>>

\* line 212, self.idx_t += 1: the store of the sum
IdxStore(c) ==
    /\ thr[c].pc = "idx_store"
    /\ det' = [det EXCEPT !.idx_t = thr[c].idx_t + 1]
    /\ thr' = [thr EXCEPT ![c] = [@ EXCEPT !.pc = "rng_is_none"]]
    /\ UNCHANGED <<args, proc, batch, gen, call, part, seen, out>>

\* line 214, if self.rng is None
RngIsNone(c) ==
    /\ thr[c].pc = "rng_is_none"
    /\ thr' = [thr EXCEPT ![c] = [@ EXCEPT !.pc = IF det.rng = None THEN "rng_create"
                                                   ELSE "seed_rng"]]
    /\ UNCHANGED <<args, proc, det, batch, gen, call, part, seen, out>>

\* line 215, self.rng = torch.Generator(...)
RngCreate(c) ==
    /\ thr[c].pc = "rng_create"
    /\ det' = [det EXCEPT !.rng = Generator]
    /\ thr' = [thr EXCEPT ![c] = [@ EXCEPT !.pc = "seed_rng"]]
    /\ UNCHANGED <<args, proc, batch, gen, call, part, seen, out>>

\* line 91, self._seed_rng(input_ids)
SeedRng(c) ==
    /\ thr[c].pc = "seed_rng"
    /\ det' = [det EXCEPT !.rng = seed_rng(det, <<thr[c].prev_token>>).rng]
    /\ thr' = [thr EXCEPT ![c] = [@ EXCEPT !.pc = "vocab_permutation"]]
    /\ UNCHANGED <<args, proc, batch, gen, call, part, seen, out>>

\* line 96, vocab_permutation = torch.randperm(..., generator=self.rng)
VocabPermutation(c) ==
    /\ thr[c].pc = "vocab_permutation"
    /\ \E draw \in {randperm(det.vocab_size, det.rng)} :
           /\ det' = [det EXCEPT !.rng = draw.state]
           /\ thr' = [thr EXCEPT ![c] = [@ EXCEPT !.pc = "seed_depth_rng",
                                                   !.vocab_permutation = draw.perm]]
    /\ UNCHANGED <<args, proc, batch, gen, call, part, seen, out>>

\* line 101, self._seed_depth_rng()
SeedDepthRng(c) ==
    /\ thr[c].pc = "seed_depth_rng"
    /\ det' = [det EXCEPT !.rng = seed_depth_rng(det)]
    /\ thr' = [thr EXCEPT ![c] = [@ EXCEPT !.pc = "depth_permutation"]]
    /\ UNCHANGED <<args, proc, batch, gen, call, part, seen, out>>

\* line 102, depth_permutation = torch.randperm(len(greenlist_ids),
\* generator=self.rng), and lines 103-127, which touch locals only
DepthPermutation(c) ==
    /\ thr[c].pc = "depth_permutation"
    /\ \E draw \in {randperm(greenlist_size(det), det.rng)} :
           /\ det' = [det EXCEPT !.rng = draw.state]
           /\ thr' = [thr EXCEPT ![c] =
                         [@ EXCEPT !.pc = "done",
                                   !.res = greenlist_from(det, args, thr[c].vocab_permutation,
                                                          draw.perm)]]
    /\ UNCHANGED <<args, proc, batch, gen, call, part, seen, out>>

NextConcurrent ==
    \E c \in Callers :
        \/ \E t \in Tokens(det) : BeginCall(c, t)
        \/ \E t \in Tokens(det) : BeginScore(c, t)
        \/ IdxLoad(c)
        \/ IdxStore(c)
        \/ RngIsNone(c)
        \/ RngCreate(c)
        \/ SeedRng(c)
        \/ VocabPermutation(c)
        \/ SeedDepthRng(c)
        \/ DepthPermutation(c)

SpecConcurrent == InitConcurrent /\ [][NextConcurrent]_vars

\* ------------------------------------------------- generation and scoring
NoArg == [present |-> FALSE, ids |-> << >>]

\* the prompts tried: rows of one length over the tokens 0 and 1
Prompts(B) == UNION {[1..B -> [1..L -> {0, 1}]] : L \in 1..2}

\* the raw scores the generation engine passes to __call__
raw_scores(self, B) == [b \in 1..B |-> [id \in Tokens(self) |-> (b + id) * ScoreScale]]

Init ==
    /\ args \in [gen_mode : {"normal"}, depth : {1}]
                 \cup [gen_mode : {"depth_d"}, depth : 1..MaxDepth]
    /\ \E g \in 1..(GammaDen - 1), uid \in UserIds, dd \in BOOLEAN,
          wm \in {"previous1", "combination"} :
          LET base == WatermarkBase(MaxV, g, dd, 2 * ScoreScale, wm, "simple_1",
                                    default_hash_key, uid)
          IN  /\ proc = base
              /\ det = WatermarkDetector(base, TRUE,
                           [present |-> TRUE, bos_token_id |-> None], 4, FALSE)
    /\ batch \in UNION {Prompts(B) : B \in BatchSizes}
    /\ gen = [b \in 1..Len(batch) |-> << >>]
    /\ call = NoCall
    /\ part = NoPart
    /\ seen = << >>
    /\ out = NoOut
    /\ thr = << >>

\* the ids of row b whose score the call changed
Biased(scores_in, scores_out, b) ==
    {id \in DOMAIN scores_in[b] : scores_out[b][id] # scores_in[b][id]}

\* One generation step: the engine calls the processor on the batch and its
\* raw scores, then appends to every row the token it samples (next[b]).
Call ==
    /\ out.status = "none"
    /\ call.status \in {"none", "ok"}
    /\ Len(batch) * (Len(gen[1]) + 1) <= MaxGenTokens
    /\ \E scores \in {raw_scores(proc, Len(batch))} :
       \E r \in {WatermarkCall(proc, args, batch, scores)} :
           /\ proc' = r.self
           /\ call' = [status |-> r.status, scores_in |-> scores,
                       scores_out |-> r.scores, preferance |-> r.preferance,
                       batched_greenlist_ids |-> r.batched_greenlist_ids,
                       batched_d_masks |-> r.batched_d_masks]
           /\ IF r.status = "ok"
              THEN \E next \in [1..Len(batch) -> Tokens(proc)] :
                   /\ batch' = [b \in 1..Len(batch) |-> Append(batch[b], next[b])]
                   /\ gen' = [b \in 1..Len(batch) |->
                                Append(gen[b],
                                       [pos |-> Len(batch[b]), bit |-> r.preferance,
                                        biased |-> Biased(scores, r.scores, b),
                                        forced |-> next[b] \in Biased(scores, r.scores, b)])]
              ELSE UNCHANGED <<batch, gen>>
    /\ UNCHANGED <<args, det, part, seen, out, thr>>

\* detect(tokenized_text = row b of the batch) on the detector
DetectRow(b) ==
    /\ out.status = "none"
    /\ \E r \in {detect(det, args, NoArg, [present |-> TRUE, ids |-> batch[b]], None, FALSE)} :
           /\ det' = [det EXCEPT !.rng = r.rng]
           /\ out' = [r EXCEPT !.rng = 0] @@ [row |-> b]
    /\ UNCHANGED <<args, proc, batch, gen, call, part, seen, thr>>

Next ==
    \/ Call
    \/ \E b \in 1..Len(batch) : DetectRow(b)

Spec == Init /\ [][Next]_vars

\* ------------------------------------------- construction and detection
InitDetect ==
    /\ args \in [gen_mode : {"normal"}, depth : {1}]
                 \cup [gen_mode : {"depth_d"}, depth : 1..MaxDepth]
    /\ det = NoInstance
    /\ proc = NoInstance
    /\ batch = << >>
    /\ gen = << >>
    /\ call = NoCall
    /\ part = NoPart
    /\ seen = << >>
    /\ out = NoOut
    /\ thr = << >>

\* the sequences of at most n tokens of the vocabulary
SeqsUpTo(self, n) == UNION {[1..L -> Tokens(self)] : L \in 0..n}

\* WatermarkDetector_with_preferance(vocab, gamma, wm_mode, seeding_scheme,
\* userid, device, tokenizer, z_threshold, ignore_repeated_bigrams)
Construct(gamma, wm_mode, seeding_scheme, device, tokenizer, z_threshold, ignore) ==
    /\ det.constructed = "none"
    /\ det' = WatermarkDetector(
                  WatermarkBase(MaxV - 1, gamma, FALSE, 2 * ScoreScale, wm_mode,
                                seeding_scheme, default_hash_key, <<1, 0>>),
                  device, tokenizer, z_threshold, ignore)
    /\ UNCHANGED <<args, proc, batch, gen, call, part, seen, out, thr>>

\* detect(text, tokenized_text, z_threshold = z_threshold,
\* return_green_token_mask = mask) on the constructed detector
Detect(text, tokenized_text, z_threshold, mask) ==
    /\ det.constructed = "ok"
    /\ out.status = "none"
    /\ \E r \in {detect(det, args, text, tokenized_text, z_threshold, mask)} :
           /\ det' = [det EXCEPT !.rng = r.rng]
           /\ out' = [r EXCEPT !.rng = 0]
                      @@ [one_input |-> text.present # tokenized_text.present,
                          given |-> IF tokenized_text.present THEN tokenized_text.ids
                                    ELSE text.ids,
                          z_threshold |-> z_threshold,
                          return_green_token_mask |-> mask]
    /\ UNCHANGED <<args, proc, batch, gen, call, part, seen, thr>>

\* the (z_threshold, return_green_token_mask) options tried
DetectOptions == {<<None, FALSE>>, <<0, FALSE>>, <<2, FALSE>>, <<None, TRUE>>}

NextDetect ==
    \/ \E gamma \in 0..GammaDen, wm_mode \in {"previous1", "combination", "other"},
          seeding_scheme \in {"simple_1", "other"}, bos \in {None, 0},
          z_threshold \in {1, 4}, ignore \in BOOLEAN :
          Construct(gamma, wm_mode, seeding_scheme, TRUE,
                    [present |-> TRUE, bos_token_id |-> bos], z_threshold, ignore)
    \/ \E device \in BOOLEAN, present \in BOOLEAN :
          /\ ~(device /\ present)
          /\ Construct(2, "previous1", "simple_1", device,
                       [present |-> present, bos_token_id |-> None], 4, FALSE)
    \/ /\ det.constructed = "ok"
       /\ \E ids \in SeqsUpTo(det, MaxLen), opt \in DetectOptions :
             \/ Detect([present |-> TRUE, ids |-> ids], NoArg, opt[1], opt[2])
             \/ Detect(NoArg, [present |-> TRUE, ids |-> ids], opt[1], opt[2])
    \/ Detect(NoArg, NoArg, None, FALSE)
    \/ /\ det.constructed = "ok"
       /\ \E ids \in SeqsUpTo(det, 1) :
             Detect([present |-> TRUE, ids |-> ids], [present |-> TRUE, ids |-> ids],
                    None, FALSE)

SpecDetect == InitDetect /\ [][NextDetect]_vars

\* ------------------------------------------------------------------ claims
\* C1: the green_ids and red_ids that _get_greenlist_ids derives (lines 95-99)
\* are a partition of the vocabulary [0, V): no id twice, no id in both, every
\* id in one of them, and green_ids has exactly floor(gamma * V) elements.
C1_Partition ==
    part.status \in {"ok", "IndexError"} =>
        LET g == part.res.greenlist_ids
            r == part.res.redlist_ids
        IN  /\ Range(g) \cap Range(r) = {}
            /\ Range(g) \cup Range(r) = Tokens(det)
            /\ Cardinality(Range(g)) = Len(g)
            /\ Cardinality(Range(r)) = Len(r)
            /\ Len(g) * GammaDen <= det.gamma * det.vocab_size
            /\ (Len(g) + 1) * GammaDen > det.gamma * det.vocab_size

\* a returned pair with one green id and three red ids (gamma * V not a
\* multiple of the denominator is covered by V = 3)
C1_Witness ==
    /\ part.status = "ok"
    /\ det.vocab_size = 3
    /\ det.gamma = 2
    /\ Len(part.res.greenlist_ids) = 1
    /\ Len(part.res.redlist_ids) = 2

ExactlyOnce(chunks, ids) ==
    /\ \A x \in Range(ids) : Occurrences(Concat(chunks), x) = 1
    /\ Range(Concat(chunks)) \subseteq Range(ids)

\* C2: in depth mode the green chunks returned hold every id of green_ids
\* exactly once and the red chunks hold every id of red_ids exactly once.
C2_DepthCoverage ==
    (part.status = "ok" /\ args.gen_mode = "depth_d") =>
        /\ Len(part.res.green_d_masks) = args.depth
        /\ Len(part.res.red_d_masks) = args.depth
        /\ ExactlyOnce(part.res.green_d_masks, part.res.greenlist_ids)
        /\ ExactlyOnce(part.res.red_d_masks, part.res.redlist_ids)

\* C3: on one instance, whatever calls came before, _get_greenlist_ids gives
\* one and the same result (green_ids, red_ids and chunks) for one previous
\* token: the results ever returned for a token are all equal.
C3_Deterministic == \A t \in DOMAIN seen : Cardinality(seen[t]) <= 1

\* the same token asked again after a call for another token came between
C3_Witness ==
    /\ part.n = 3
    /\ part.status = "ok"
    /\ part.prev[1] = part.prev[3]
    /\ part.prev[2] # part.prev[1]
    /\ args.gen_mode = "depth_d"
    /\ Len(part.res.greenlist_ids) >= 2

\* the position (1-based) in the scan's records of the k-th generated token
\* of the scored row, 0 when the scan did not reach it
ScanIndex(k) ==
    LET i == gen[out.row][k].pos - det.min_prefix_len + 1 IN
    IF i >= 1 /\ i <= Len(out.bits) THEN i ELSE 0

\* C4: for every row of the batch, the set __call__ biased at the step that
\* produced token t and the preference bit it used are the markable set and
\* the bit the detector's scan uses at position t of that row.
C4_BatchSymmetry ==
    out.status # "none" =>
        \A k \in 1..Len(gen[out.row]) :
            ScanIndex(k) # 0 =>
                /\ gen[out.row][k].bit = out.bits[ScanIndex(k)]
                /\ gen[out.row][k].biased = out.markable[ScanIndex(k)]

\* C5: in gen_mode normal with decrease_delta off, a generation step adds
\* delta to scores[b][id] for the ids of row b's markable set and leaves every
\* other entry as it was.
C5_BiasLocality ==
    (call.status = "ok" /\ args.gen_mode = "normal" /\ ~proc.decrease_delta) =>
        \A b \in 1..Len(call.scores_in) : \A id \in Tokens(proc) :
            call.scores_out[b][id] =
                call.scores_in[b][id]
                    + (IF id \in Range(call.batched_greenlist_ids[b])
                       THEN proc.delta ELSE 0)

\* a step on a batch of two rows whose markable sets differ
C5_Witness ==
    /\ call.status = "ok"
    /\ args.gen_mode = "normal"
    /\ ~proc.decrease_delta
    /\ Len(call.scores_in) = 2
    /\ Range(call.batched_greenlist_ids[1]) # Range(call.batched_greenlist_ids[2])
    /\ Range(call.batched_greenlist_ids[1]) # {}
    /\ Range(call.batched_greenlist_ids[1]) # Tokens(proc)

\* the scored row is a single sequence whose every generated token was taken
\* from the set the step biased, and the scan went through all of it
ForcedSingle ==
    /\ out.status # "none"
    /\ Len(batch) = 1
    /\ \A k \in 1..Len(gen[1]) : gen[1][k].forced
    /\ Len(out.mark) = Len(out.tokens) - det.min_prefix_len

\* C6: for a single sequence generated with every token taken from the biased
\* set, the mark the detector's scan records at each generated position is the
\* preference bit the generation step for that position used.
C6_MarkRoundTrip ==
    ForcedSingle =>
        \A k \in 1..Len(gen[1]) :
            ScanIndex(k) # 0 => out.mark[ScanIndex(k)] = gen[1][k].bit

\* detect returned for a forced sequence of two generated tokens, one step
\* with preference 1 and one with preference 0
C6_Witness ==
    /\ ForcedSingle
    /\ out.status = "ok"
    /\ Len(gen[1]) = 2
    /\ ScanIndex(1) # 0
    /\ ScanIndex(2) # 0
    /\ gen[1][1].bit # gen[1][2].bit

\* detect went as far as calling _score_sequence
Scored == out.status # "none" /\ out.one_input /\ out.given # << >>

\* C7: for every detector that can be constructed and every sequence with at
\* least one token to score, detect called with exactly one of text and
\* tokenized_text returns, or fails with an input-validation failure
\* (configuration error, insufficient length, ambiguous input).  Stated for
\* gamma strictly between 0 and 1, where the z-score is defined.
C7_DetectCompletes ==
    (Scored /\ Len(out.tokens) - det.min_prefix_len >= 1
       /\ det.gamma > 0 /\ det.gamma < GammaDen) =>
        out.status \in {"ok", "ValueError", "AssertionError", "NotImplementedError"}

\* C8: in every detector mode, scoring a sequence with fewer than one token
\* to score (len(tokens) - min_prefix_len < 1) fails with the
\* insufficient-length error (ValueError), never with another error and never
\* with a result.
C8_InsufficientLength ==
    (Scored /\ ~out.return_green_token_mask
       /\ Len(out.tokens) - det.min_prefix_len < 1) =>
        out.status = "ValueError"

\* C9: every detector whose construction succeeds has seeding_scheme simple_1,
\* wm_mode previous1 or combination, and min_prefix_len = 1 when
\* ignore_repeated_bigrams is on.
C9_SupportedConfiguration ==
    det.constructed = "ok" =>
        /\ det.seeding_scheme = "simple_1"
        /\ det.wm_mode \in {"previous1", "combination"}
        /\ det.ignore_repeated_bigrams => det.min_prefix_len = 1

\* C10: whenever detect returns, prediction is true exactly when z is greater
\* than the threshold in effect: the z_threshold passed to the call when one
\* is passed (0 included), the configured one otherwise; and confidence is
\* present exactly when prediction is true.
C10_Prediction ==
    out.status = "ok" =>
        /\ out.prediction =
               z_gt(det, out.green_token_count, out.num_tokens_scored,
                    IF out.z_threshold # None THEN out.z_threshold ELSE det.z_threshold)
        /\ out.confidence = out.prediction

\* the sequential scan of _score_sequence recorded at least one position
Scanned ==
    /\ out.status # "none"
    /\ det.constructed = "ok"
    /\ ~det.ignore_repeated_bigrams
    /\ Len(out.mark) >= 1

\* C11: at every position the sequential scan scored, the mark bit it records
\* is 1 exactly when the token is in the step's markable set (the condition
\* that increments green_token_count), whatever the preference bit is, so the
\* mark has as many 1s as green tokens were counted.
C11_MarkIsHit ==
    Scanned =>
        /\ \A i \in 1..Len(out.mark) :
               (out.mark[i] = 1) <=>
                   (out.tokens[i + det.min_prefix_len] \in out.markable[i])
        /\ Occurrences(out.mark, 1) = out.green_token_count


\* what one generation step added to scores[b][id]
Added(b, id) == call.scores_out[b][id] - call.scores_in[b][id]

\* C12: in gen_mode depth_d one generation step adds delta * 0.5^i to the
\* score of every id of chunk i of a row's markable set (i from 0, so chunk 2
\* gets delta / 4) and nothing to the ids outside the chunks.
C12_DepthDeltas ==
    (call.status = "ok" /\ args.gen_mode = "depth_d") =>
        \A b \in 1..Len(call.scores_in) : \A id \in Tokens(proc) :
            /\ \A i \in 1..Len(call.batched_d_masks[b]) :
                   id \in Range(call.batched_d_masks[b][i]) =>
                       Added(b, id) * (2 ^ (i - 1)) = proc.delta
            /\ (\A i \in 1..Len(call.batched_d_masks[b]) :
                   id \notin Range(call.batched_d_masks[b][i])) =>
                       Added(b, id) = 0

\* C13: when callers run partition derivations concurrently on one shared
\* instance, every caller that finishes has obtained the partition (the green
\* set and the red set) that _get_greenlist_ids gives for its own previous
\* token on that instance, whatever the interleaving.
C13_ConcurrentPartition ==
    \A c \in DOMAIN thr :
        thr[c].pc = "done" =>
            \E own \in {get_greenlist_ids(det, args, <<thr[c].prev_token>>)} :
                /\ thr[c].res.status = own.status
                /\ Range(thr[c].res.greenlist_ids) = Range(own.greenlist_ids)
                /\ Range(thr[c].res.redlist_ids) = Range(own.redlist_ids)

====
